---- MODULE Spec2Model ----
(***************************************************************************)
(* Verification model of utils.py: the plotting helpers savefig,           *)
(* interpolate_one, add_lines and plot_events.                             *)
(*                                                                         *)
(* Time is counted in ticks; one resample bin ("1d") is TicksPerDay ticks, *)
(* so an instant t is at midnight iff t % TicksPerDay = 0.  Numeric        *)
(* results are exact rationals [kind |-> "value", num, den]; a missing     *)
(* value is [kind |-> "nan"]; a raised exception is [kind |-> "raise"].    *)
(***************************************************************************)
EXTENDS Integers, Sequences, FiniteSets

VARIABLES
    dest_exists,  \* savefig: dest_dir.exists()
    saved,        \* savefig: the paths handed to plt.savefig, in order
    printed,      \* savefig: the lines printed, in order
    calls,        \* savefig: history of the calls made, [name, existed]
    series,       \* interpolate_one / add_lines: the time series (ts, sample)
    io,           \* interpolate_one: the last call, its locals and its outcome
    al,           \* add_lines: the call in progress (lines, alternate, i, pc)
    canvas,       \* add_lines: the annotations drawn on the active axes
    df,           \* plot_events: the event dataframe of the caller
    pe            \* plot_events: the last call, its arguments and its outcome

vars == <<dest_exists, saved, printed, calls, series, io, al, canvas, df, pe>>

\* ---------------------------------------------------------------- bounds
MaxCalls == 3        \* savefig calls in one run
MaxLen == 3          \* entries of a series handed to interpolate_one
MaxSampleLen == 2    \* entries of the series handed to add_lines
MaxLines == 3        \* entries of an annotation map
MaxFilterRows == 3   \* rows of a dataframe whose filters are exercised
MaxRows == 4         \* rows of a dataframe that is grouped and aggregated
MaxN == 3            \* largest n asked of the bar chart
MaxSmooth == 3       \* largest rolling window

\* "1d", the resample frequency, in ticks
TicksPerDay == 2

Days == 0 .. 3
Offsets == 0 .. (TicksPerDay - 1)
Instants == {d * TicksPerDay + o : d \in Days, o \in Offsets}
Vals == {0, 2}
None == [kind |-> "none"]
NaN == [kind |-> "nan"]
Num(n, d) == [kind |-> "value", num |-> n, den |-> d]
Raise(e) == [kind |-> "raise", exc |-> e]

Max(a, b) == IF a >= b THEN a ELSE b
Min(a, b) == IF a <= b THEN a ELSE b

\* ---------------------------------------------------------------- savefig
Names == {"fig1", "fig2"}
dest_dir == "~/Documents/Jupyter/pres/2020/jupytercon"

\* dest_dir.joinpath(name + ".pdf")
Dest(name) == [dir |-> dest_dir, file |-> <<name, ".pdf">>]

savefig_unconditional(name) ==
    /\ Len(calls) < MaxCalls
    /\ calls' = Append(calls, [name |-> name, existed |-> dest_exists])
    /\ saved' = Append(saved, Dest(name))
    /\ printed' = Append(printed, <<"Saved", Dest(name)>>)
    /\ UNCHANGED <<dest_exists, series, io, al, canvas, df, pe>>

savefig(name) ==
    /\ Len(calls) < MaxCalls
    /\ calls' = Append(calls, [name |-> name, existed |-> dest_exists])
    /\ IF ~dest_exists
         THEN UNCHANGED <<saved, printed>>
         ELSE /\ saved' = Append(saved, Dest(name))
              /\ printed' = Append(printed, <<"Saved", Dest(name)>>)
    /\ UNCHANGED <<dest_exists, series, io, al, canvas, df, pe>>

\* the environment creates or removes the presentation directory
Mkdir ==
    /\ ~dest_exists
    /\ dest_exists' = TRUE
    /\ UNCHANGED <<saved, printed, calls, series, io, al, canvas, df, pe>>

Rmdir ==
    /\ dest_exists
    /\ dest_exists' = FALSE
    /\ UNCHANGED <<saved, printed, calls, series, io, al, canvas, df, pe>>

\* ---------------------------------------------------------------- interpolate_one
\* pd.to_datetime(target, utc=True): a date-like <<day, offset>> as an instant
ToDatetime(target) == target[1] * TicksPerDay + target[2]

Targets == Days \X Offsets

\* target in ts.index
InIndex(ts, t) == \E i \in 1 .. Len(ts) : ts[i].t = t

\* ts[target], for a target that is in the index (labels are unique)
GetItem(ts, t) == ts[CHOOSE i \in 1 .. Len(ts) : ts[i].t = t].v

RECURSIVE InsertSorted(_, _)
InsertSorted(e, s) ==
    IF s = << >> THEN <<e>>
    ELSE IF e.t < s[1].t THEN <<e>> \o s
    ELSE <<s[1]>> \o InsertSorted(e, Tail(s))

\* ts.sort_index()
RECURSIVE SortIndex(_)
SortIndex(ts) ==
    IF ts = << >> THEN << >>
    ELSE InsertSorted(ts[Len(ts)], SortIndex(SubSeq(ts, 1, Len(ts) - 1)))

ArgmaxLast(ts1, target) ==
    IF \E i \in 1 .. Len(ts1) : ts1[i].t > target
      THEN (CHOOSE i \in 1 .. Len(ts1) :
              /\ ts1[i].t > target
              /\ \A j \in 1 .. (i - 1) : ~(ts1[j].t > target)) - 1
      ELSE Len(ts1)

\* (ts1.index > target).argmax(): the 0-based position of the first True,
\* and 0 when no entry is True
Argmax(ts1, target) ==
    IF \E i \in 1 .. Len(ts1) : ts1[i].t > target
      THEN (CHOOSE i \in 1 .. Len(ts1) :
              /\ ts1[i].t > target
              /\ \A j \in 1 .. (i - 1) : ~(ts1[j].t > target)) - 1
      ELSE 0

\* Python slice bound on a sequence of length n
SliceBound(x, n) == IF x < 0 THEN Max(x + n, 0) ELSE Min(x, n)

\* seq.iloc[start : stop], 0-based, negative bounds counted from the end
ILoc(seq, start, stop) ==
    SubSeq(seq, SliceBound(start, Len(seq)) + 1, SliceBound(stop, Len(seq)))

Floor(t) == t - (t % TicksPerDay)

\* s.resample("1d") upsampled: the daily grid from the day of the first
\* entry to the day of the last, holding a value where an entry of s sits
\* exactly on the grid and NaN elsewhere
Resample(s) ==
    IF s = << >> THEN << >>
    ELSE LET first == Floor(s[1].t)
             last == Floor(s[Len(s)].t)
             n == ((last - first) \div TicksPerDay) + 1
             at(i) == first + (i - 1) * TicksPerDay
         IN [i \in 1 .. n |->
               [t |-> at(i),
                v |-> IF InIndex(s, at(i)) THEN Num(GetItem(s, at(i)), 1) ELSE NaN]]

\* value of grid entry i after .interpolate(method="time"): linear in the
\* index between the valid neighbours; NaN before the first valid entry;
\* the last valid value after it
InterpolateAt(g, i) ==
    IF g[i].v # NaN THEN g[i].v
    ELSE LET before == {j \in 1 .. (i - 1) : g[j].v # NaN}
             after == {j \in (i + 1) .. Len(g) : g[j].v # NaN}
         IN IF before = {} THEN NaN
            ELSE LET p == CHOOSE j \in before : \A k \in before : k <= j
                 IN IF after = {} THEN g[p].v
                    ELSE LET q == CHOOSE j \in after : \A k \in after : j <= k
                             span == g[q].t - g[p].t
                         IN Num(g[p].v.num * span
                                  + (g[q].v.num - g[p].v.num) * (g[i].t - g[p].t),
                                span)

Interpolate(g) == [i \in 1 .. Len(g) |-> [t |-> g[i].t, v |-> InterpolateAt(g, i)]]

\* .loc[target]
Loc(g, target) ==
    IF \E i \in 1 .. Len(g) : g[i].t = target
      THEN g[CHOOSE i \in 1 .. Len(g) : g[i].t = target].v
      ELSE Raise("KeyError")

interpolate_one_no_exact(ts, rawtarget) ==
    LET target == ToDatetime(rawtarget)
        ts1 == SortIndex(ts)
    IN IF ts1 = << >>
         THEN [path |-> "interp", result |-> Raise("ValueError")]
         ELSE LET b == Argmax(ts1, target)
                  s == ILoc(ts1, b - 1, b + 1)
              IN [path |-> "interp", b |-> b, s |-> s,
                  result |-> Loc(Interpolate(Resample(s)), target)]

interpolate_one(ts, rawtarget) ==
    LET target == ToDatetime(rawtarget)
    IN IF InIndex(ts, target)
         THEN [path |-> "exact", result |-> Num(GetItem(ts, target), 1)]
         ELSE LET ts1 == SortIndex(ts)
              IN IF ts1 = << >>
                   THEN [path |-> "interp", result |-> Raise("ValueError")]
                   ELSE LET b == Argmax(ts1, target)
                            s == ILoc(ts1, b - 1, b + 1)
                        IN [path |-> "interp", b |-> b, s |-> s,
                            result |-> Loc(Interpolate(Resample(s)), target)]

CallInterpolateOne(target) ==
    /\ io = None
    /\ io' = [target |-> target, ret |-> interpolate_one(series, target)]
    /\ UNCHANGED <<dest_exists, saved, printed, calls, series, al, canvas, df, pe>>

\* series with unique index labels, in any order
SeriesOfLen(n) ==
    {s \in [1 .. n -> [t : Instants, v : Vals]] :
        \A i, j \in 1 .. n : i # j => s[i].t # s[j].t}

SeriesUpTo(n) == UNION {SeriesOfLen(k) : k \in 0 .. n}

\* ---------------------------------------------------------------- specifications
InitIdle ==
    /\ dest_exists \in BOOLEAN
    /\ saved = << >>
    /\ printed = << >>
    /\ calls = << >>
    /\ series = << >>
    /\ io = None
    /\ al = None
    /\ canvas = << >>
    /\ df = << >>
    /\ pe = None

NextSave == (\E name \in Names : savefig(name)) \/ Mkdir \/ Rmdir

SpecSave == InitIdle /\ [][NextSave]_vars

InitInterp ==
    /\ dest_exists = FALSE
    /\ saved = << >>
    /\ printed = << >>
    /\ calls = << >>
    /\ series \in SeriesUpTo(MaxLen)
    /\ io = None
    /\ al = None
    /\ canvas = << >>
    /\ df = << >>
    /\ pe = None

NextInterp == \E target \in Targets : CallInterpolateOne(target)

SpecInterp == InitInterp /\ [][NextInterp]_vars

\* ---------------------------------------------------------------- add_lines
\* config["dates"], the default annotation map loaded from cfg.yaml
config_dates ==
    <<[date |-> <<0, 0>>, text |-> "e0"],
      [date |-> <<1, 0>>, text |-> "e1"],
      [date |-> <<2, 0>>, text |-> "e2"]>>

PlacementSwapped(i, alternate) ==
    IF i % 2 = 1 \/ ~alternate
      THEN [xytext |-> <<-64, 100>>, horizontalalignment |-> "right"]
      ELSE [xytext |-> <<64, -80>>, horizontalalignment |-> "left"]

\* the offset and the alignment of the label at position i
Placement(i, alternate) ==
    IF i % 2 = 0 \/ ~alternate
      THEN [xytext |-> <<-64, 100>>, horizontalalignment |-> "right"]
      ELSE [xytext |-> <<64, -80>>, horizontalalignment |-> "left"]

\* add_lines up to the loop: the default for lines, ax = plt.gca()
add_lines(lines, alternate) ==
    /\ al = None
    /\ al' = [lines |-> IF lines = None THEN config_dates ELSE lines.items,
              alternate |-> alternate, i |-> 0, pc |-> "loop"]
    /\ UNCHANGED <<dest_exists, saved, printed, calls, series, io, canvas, df, pe>>

add_lines_loop_skip_failed ==
    /\ al # None
    /\ al.pc = "loop"
    /\ IF al.i = Len(al.lines)
         THEN /\ al' = [al EXCEPT !.pc = "returned"]
              /\ UNCHANGED canvas
         ELSE LET entry == al.lines[al.i + 1]
                  y == interpolate_one(series, entry.date).result
                  p == Placement(al.i, al.alternate)
              IN IF y.kind = "raise"
                   THEN /\ al' = [al EXCEPT !.i = al.i + 1]
                        /\ UNCHANGED canvas
                   ELSE /\ canvas' = Append(canvas,
                               [text |-> entry.text,
                                xy |-> <<entry.date, y>>,
                                xycoords |-> "data",
                                xytext |-> p.xytext,
                                textcoords |-> "offset points",
                                horizontalalignment |-> p.horizontalalignment])
                        /\ al' = [al EXCEPT !.i = al.i + 1]
    /\ UNCHANGED <<dest_exists, saved, printed, calls, series, io, df, pe>>

\* one turn of the for loop: the next entry is annotated, or
\* interpolate_one raises and the exception leaves add_lines; after the
\* last entry add_lines returns
add_lines_loop ==
    /\ al # None
    /\ al.pc = "loop"
    /\ IF al.i = Len(al.lines)
         THEN /\ al' = [al EXCEPT !.pc = "returned"]
              /\ UNCHANGED canvas
         ELSE LET entry == al.lines[al.i + 1]
                  y == interpolate_one(series, entry.date).result
                  p == Placement(al.i, al.alternate)
              IN IF y.kind = "raise"
                   THEN /\ al' = [al EXCEPT !.pc = "raised"]
                        /\ UNCHANGED canvas
                   ELSE /\ canvas' = Append(canvas,
                               [text |-> entry.text,
                                xy |-> <<entry.date, y>>,
                                xycoords |-> "data",
                                xytext |-> p.xytext,
                                textcoords |-> "offset points",
                                horizontalalignment |-> p.horizontalalignment])
                        /\ al' = [al EXCEPT !.i = al.i + 1]
    /\ UNCHANGED <<dest_exists, saved, printed, calls, series, io, df, pe>>

\* annotation maps: dates in any order, no date twice
Label(d) == IF d = 0 THEN "e0" ELSE IF d = 1 THEN "e1" ELSE IF d = 2 THEN "e2" ELSE "e3"

LinesOfLen(n) ==
    {[i \in 1 .. n |-> [date |-> <<k[i], 0>>, text |-> Label(k[i])]] :
        k \in {f \in [1 .. n -> Days] : \A i, j \in 1 .. n : i # j => f[i] # f[j]}}

LinesArgs ==
    {None} \cup {[kind |-> "dict", items |-> l] :
                    l \in UNION {LinesOfLen(n) : n \in 0 .. MaxLines}}

InitLines ==
    /\ dest_exists = FALSE
    /\ saved = << >>
    /\ printed = << >>
    /\ calls = << >>
    /\ series \in SeriesUpTo(MaxSampleLen)
    /\ io = None
    /\ al = None
    /\ canvas = << >>
    /\ df = << >>
    /\ pe = None

NextLines ==
    \/ \E lines \in LinesArgs, alternate \in BOOLEAN : add_lines(lines, alternate)
    \/ add_lines_loop

SpecLines == InitLines /\ [][NextLines]_vars

\* ---------------------------------------------------------------- plot_events
\* An event is [type, org, date, repo_name, actor_id] with date <<year, month>>.
\* An optional argument is None or a tagged value: [kind |-> "str", value],
\* [kind |-> "list", values], [kind |-> "date", value], [kind |-> "int", value].
StrArg(x) == [kind |-> "str", value |-> x]
ListArg(xs) == [kind |-> "list", values |-> xs]
DateArg(d) == [kind |-> "date", value |-> d]
IntArg(i) == [kind |-> "int", value |-> i]

\* Python truth value of an argument: None, "", [] and 0 are false
Truthy(x) ==
    CASE x.kind = "none" -> FALSE
      [] x.kind = "str" -> x.value # ""
      [] x.kind = "list" -> x.values # {}
      [] x.kind = "int" -> x.value # 0
      [] OTHER -> TRUE

\* if isinstance(x, str): x = [x]
AsList(x) == IF x.kind = "str" THEN {x.value} ELSE x.values

\* df.date >= since
DateGE(d, since) == d[1] > since[1] \/ (d[1] = since[1] /\ d[2] >= since[2])

MaskTrue == [kind |-> "True"]

\* mask &= column: True & column is the column, otherwise elementwise and
MaskAnd(mask, column) ==
    IF mask = MaskTrue
      THEN [kind |-> "series", bits |-> column]
      ELSE [kind |-> "series",
            bits |-> [i \in DOMAIN column |-> mask.bits[i] /\ column[i]]]

ApplyIfGiven(given, mask, column) == IF given THEN MaskAnd(mask, column) ELSE mask

\* the mask after the four optional filters
BuildMask(d, a) ==
    LET m1 == ApplyIfGiven(Truthy(a.events), MaskTrue,
                           [i \in 1 .. Len(d) |-> d[i].type \in AsList(a.events)])
        m2 == ApplyIfGiven(Truthy(a.org), m1,
                           [i \in 1 .. Len(d) |-> d[i].org \in AsList(a.org)])
        m3 == ApplyIfGiven(Truthy(a.since), m2,
                           [i \in 1 .. Len(d) |-> DateGE(d[i].date, a.since.value)])
        m4 == ApplyIfGiven(Truthy(a.year), m3,
                           [i \in 1 .. Len(d) |-> d[i].date[1] = a.year.value])
    IN m4

RECURSIVE Select(_, _, _)
Select(d, bits, i) ==
    IF i > Len(d) THEN << >>
    ELSE (IF bits[i] THEN <<d[i]>> ELSE << >>) \o Select(d, bits, i + 1)

\* if mask is not True: df = df[mask]
Filter(d, a) ==
    LET mask == BuildMask(d, a)
    IN IF mask = MaskTrue THEN d ELSE Select(d, mask.bits, 1)

\* group keys in sorted order
KeyOrder == <<"A", "B", "C">>
Ordinal(date) == date[1] * 12 + (date[2] - 1)
Bucket(o) == <<o \div 12, (o % 12) + 1>>

\* the rows of one group
RowsOfKey(d, k) == {i \in 1 .. Len(d) : d[i].repo_name = k}
RowsOfBucket(d, o) == {i \in 1 .. Len(d) : Ordinal(d[i].date) = o}

\* getattr(getattr(grouped, column), metric)() on the rows of one group
Aggregate(d, idx, metric) ==
    IF metric = "count" THEN Cardinality(idx)
    ELSE Cardinality({d[i].actor_id : i \in idx})

\* groupby(repo_name): one value per observed key, in key order
GroupByKey(d, metric) ==
    LET seen == SelectSeq(KeyOrder, LAMBDA k : \E i \in 1 .. Len(d) : d[i].repo_name = k)
    IN [j \in 1 .. Len(seen) |->
          [key |-> seen[j],
           val |-> Aggregate(d, RowsOfKey(d, seen[j]), metric)]]

RECURSIVE InsertByVal(_, _)
InsertByVal(e, s) ==
    IF s = << >> THEN <<e>>
    ELSE IF e.val >= s[1].val THEN <<e>> \o s
    ELSE <<s[1]>> \o InsertByVal(e, Tail(s))

\* stable sort by value, descending: ties keep their order
RECURSIVE SortByValDesc(_)
SortByValDesc(s) ==
    IF s = << >> THEN << >>
    ELSE InsertByVal(s[1], SortByValDesc(Tail(s)))

Take(s, n) == SubSeq(s, 1, Min(Max(n, 0), Len(s)))

NLargestUnsorted(s, n) == Take(s, n)

\* data.nlargest(n), keep="first"
NLargest(s, n) == Take(SortByValDesc(s), n)

\* the time buckets of freq "M" that hold a row
SeenBuckets(d) == {Ordinal(d[i].date) : i \in 1 .. Len(d)}

RECURSIVE Ascending(_)
Ascending(S) ==
    IF S = {} THEN << >>
    ELSE LET m == CHOOSE x \in S : \A y \in S : x <= y
         IN <<m>> \o Ascending(S \ {m})

\* groupby([Grouper(freq, key="date"), repo_name]) ... unstack(-1): one row
\* per observed bucket, one column per observed key, NaN where a bucket
\* holds no row of the key
Unstacked(d, metric) ==
    LET index == Ascending(SeenBuckets(d))
        columns == SelectSeq(KeyOrder, LAMBDA k : \E i \in 1 .. Len(d) : d[i].repo_name = k)
        cell(o, k) ==
            LET idx == RowsOfKey(d, k) \cap RowsOfBucket(d, o)
            IN IF idx = {} THEN NaN ELSE Num(Aggregate(d, idx, metric), 1)
    IN [index |-> [i \in 1 .. Len(index) |-> Bucket(index[i])],
        columns |-> columns,
        values |-> [j \in 1 .. Len(columns) |->
                      [i \in 1 .. Len(index) |-> cell(index[i], columns[j])]]]

\* groupby([Grouper(freq, key="date")]): one row per bucket from the first
\* to the last observed one, empty buckets included
Binned(d, column, metric) ==
    LET seen == SeenBuckets(d)
        lo == CHOOSE x \in seen : \A y \in seen : x <= y
        hi == CHOOSE x \in seen : \A y \in seen : y <= x
        index == IF seen = {} THEN << >> ELSE [i \in 1 .. (hi - lo + 1) |-> lo + i - 1]
    IN [index |-> [i \in 1 .. Len(index) |-> Bucket(index[i])],
        columns |-> <<column>>,
        values |-> <<[i \in 1 .. Len(index) |->
                       Num(Aggregate(d, RowsOfBucket(d, index[i]), metric), 1)]>>]

RECURSIVE SumNum(_, _, _)
SumNum(col, lo, hi) == IF lo > hi THEN 0 ELSE col[lo].num + SumNum(col, lo + 1, hi)

RollingMeanCentered(col, k) ==
    [i \in 1 .. Len(col) |->
       LET lo == i - (k \div 2)
           hi == lo + k - 1
       IN IF lo < 1 \/ hi > Len(col) THEN NaN
          ELSE IF \E j \in lo .. hi : col[j] = NaN THEN NaN
          ELSE Num(SumNum(col, lo, hi), k)]

\* column.rolling(k).mean(): the window ends at the row, min_periods = k
RollingMean(col, k) ==
    [i \in 1 .. Len(col) |->
       IF i < k THEN NaN
       ELSE IF \E j \in (i - k + 1) .. i : col[j] = NaN THEN NaN
       ELSE Num(SumNum(col, i - k + 1, i), k)]

Rolling(table, k) ==
    [table EXCEPT !.values = [j \in 1 .. Len(table.columns) |-> RollingMean(table.values[j], k)]]

\* plot_args.setdefault("kind", ...), setdefault("linewidth", 0)
PlotArgs(a) ==
    IF a.timeseries THEN [kind |-> "area", linewidth |-> 0, grid |-> "unchanged"]
    ELSE [kind |-> "bar", linewidth |-> "unset", grid |-> "off"]

\* plot_events: the locals when data.plot(**plot_args) is reached, data being
\* the value returned once the chart is drawn
plot_events(d, a) ==
    LET rows == Filter(d, a)
    IN IF a.timeseries
         THEN LET unsmoothed == IF Truthy(a.groupby)
                                  THEN Unstacked(rows, a.metric)
                                  ELSE Binned(rows, a.column, a.metric)
                  data == IF Truthy(a.smooth) THEN Rolling(unsmoothed, a.smooth.value)
                          ELSE unsmoothed
              IN [kind |-> "ok", rows |-> rows, unsmoothed |-> unsmoothed,
                  data |-> data, plot |-> PlotArgs(a)]
         ELSE IF ~Truthy(a.groupby)
                THEN [kind |-> "raise", exc |-> "UnboundLocalError", rows |-> rows]
                ELSE LET agg == GroupByKey(rows, a.metric)
                     IN [kind |-> "ok", rows |-> rows, agg |-> agg,
                         data |-> NLargest(agg, a.n), plot |-> PlotArgs(a)]

CallPlotEvents(a) ==
    /\ pe = None
    /\ pe' = [args |-> a, out |-> plot_events(df, a)]
    /\ UNCHANGED <<dest_exists, saved, printed, calls, series, io, al, canvas, df>>

Frames(rows, n) == UNION {[1 .. k -> rows] : k \in 0 .. n}

DefaultArgs ==
    [events |-> None, org |-> None, since |-> None, year |-> None, n |-> 5,
     freq |-> "M", groupby |-> StrArg("repo_name"), column |-> "actor_id",
     metric |-> "count", timeseries |-> FALSE, smooth |-> None]

InitFrame(frames) ==
    /\ dest_exists = FALSE
    /\ saved = << >>
    /\ printed = << >>
    /\ calls = << >>
    /\ series = << >>
    /\ io = None
    /\ al = None
    /\ canvas = << >>
    /\ df \in frames
    /\ pe = None

\* filters
FilterRows ==
    [type : {"X", "W"}, org : {"Y", "Z"}, date : {<<2019, 6>>, <<2020, 6>>},
     repo_name : {"A"}, actor_id : {1}]

FilterArgs ==
    {[DefaultArgs EXCEPT !.events = e, !.org = o, !.since = s, !.year = y] :
        e \in {None, StrArg("X"), ListArg({}), ListArg({"X"}), ListArg({"X", "W"})},
        o \in {None, StrArg("Y"), ListArg({}), ListArg({"Z"})},
        s \in {None, DateArg(<<2020, 1>>)},
        y \in {None, IntArg(2019), IntArg(2020)}}

InitFilter == InitFrame(Frames(FilterRows, MaxFilterRows))
NextFilter == \E a \in FilterArgs : CallPlotEvents(a)
SpecFilter == InitFilter /\ [][NextFilter]_vars

\* bar chart of the top n groups
TopNRows ==
    [type : {"X"}, org : {"Y"}, date : {<<2020, 6>>},
     repo_name : {"A", "B", "C"}, actor_id : {1, 2}]

TopNArgs ==
    {[DefaultArgs EXCEPT !.n = n, !.metric = m, !.groupby = g] :
        n \in (1 .. MaxN) \cup {5},
        m \in {"count", "nunique"},
        g \in {None, StrArg("repo_name")}}

InitTopN == InitFrame(Frames(TopNRows, MaxRows))
NextTopN == \E a \in TopNArgs : CallPlotEvents(a)
SpecTopN == InitTopN /\ [][NextTopN]_vars

\* smoothed time series
SmoothRows ==
    [type : {"X"}, org : {"Y"}, date : {<<2020, 1>>, <<2020, 2>>, <<2020, 3>>},
     repo_name : {"A", "B"}, actor_id : {1}]

SmoothArgs ==
    {[DefaultArgs EXCEPT !.timeseries = TRUE, !.smooth = k, !.groupby = g] :
        k \in {None} \cup {IntArg(i) : i \in 1 .. MaxSmooth},
        g \in {None, StrArg("repo_name")}}

InitSmooth == InitFrame(Frames(SmoothRows, MaxRows))
NextSmooth == \E a \in SmoothArgs : CallPlotEvents(a)
SpecSmooth == InitSmooth /\ [][NextSmooth]_vars

\* ---------------------------------------------------------------- claims: savefig
CallsWhileDirExisted == SelectSeq(calls, LAMBDA c : c.existed)

\* C5: savefig is a silent no-op while dest_dir is missing and otherwise
\* writes dest_dir/<name>.pdf and reports it: after any sequence of calls the
\* files written, and the lines printed, are exactly those of the calls made
\* while dest_dir existed, one per call and in call order.
SavefigSilentSkip ==
    LET done == CallsWhileDirExisted
    IN /\ Len(saved) = Len(done)
       /\ Len(printed) = Len(done)
       /\ \A i \in 1 .. Len(done) :
            /\ saved[i] = [dir |-> dest_dir, file |-> <<done[i].name, ".pdf">>]
            /\ printed[i] = <<"Saved", saved[i]>>

SavefigSkippedAndSaved ==
    /\ \E i \in 1 .. Len(calls) : ~calls[i].existed
    /\ \E i \in 1 .. Len(calls) : calls[i].existed
    /\ Len(saved) >= 1
    /\ Len(saved) < Len(calls)

\* ---------------------------------------------------------------- claims: interpolate_one
Called == io # None
Target == ToDatetime(io.target)
IsSorted(ts) == \A i \in 1 .. (Len(ts) - 1) : ts[i].t < ts[i + 1].t
Aligned(t) == t % TicksPerDay = 0

\* C3: for a target that is in the index, interpolate_one returns exactly
\* the value stored at it, by the direct lookup (no sort, no resample),
\* whether or not the series is sorted.
InterpolateExactOnKnownPoints ==
    (Called /\ \E i \in 1 .. Len(series) : series[i].t = Target)
      => /\ io.ret.path = "exact"
         /\ io.ret.result.kind = "value"
         /\ io.ret.result.den = 1
         /\ \E i \in 1 .. Len(series) :
              series[i].t = Target /\ series[i].v = io.ret.result.num

ExactOnUnsortedOffGrid ==
    /\ Called
    /\ ~IsSorted(series)
    /\ ~Aligned(Target)
    /\ \E i \in 1 .. Len(series) : series[i].t = Target
    /\ io.ret.path = "exact"

\* the entries of the series right before and right after an instant
EntriesBefore(t) == {i \in 1 .. Len(series) : series[i].t < t}
EntriesAfter(t) == {i \in 1 .. Len(series) : series[i].t > t}
Prev(t) == CHOOSE i \in EntriesBefore(t) :
              \A j \in EntriesBefore(t) : series[j].t <= series[i].t
Succ(t) == CHOOSE i \in EntriesAfter(t) :
              \A j \in EntriesAfter(t) : series[i].t <= series[j].t
Inside == /\ Called
          /\ \A i \in 1 .. Len(series) : series[i].t # Target
          /\ EntriesBefore(Target) # {}
          /\ EntriesAfter(Target) # {}

\* r is the value v1 + (v2 - v1) * (t - t1) / (t2 - t1)
IsLinear(r, e1, e2, t) ==
    /\ r.kind = "value"
    /\ r.num * (e2.t - e1.t)
         = (e1.v * (e2.t - e1.t) + (e2.v - e1.v) * (t - e1.t)) * r.den

IsBetween(r, e1, e2) ==
    /\ r.kind = "value"
    /\ Min(e1.v, e2.v) * r.den <= r.num
    /\ r.num <= Max(e1.v, e2.v) * r.den

\* C4: for a target strictly between two consecutive timestamps t1 < target
\* < t2 of the series, interpolate_one returns the linear-in-time
\* interpolation of v1 and v2, a value between v1 and v2, computed from the
\* neighbourhood {t1, t2}.
InterpolateLinearBetweenNeighbours ==
    Inside =>
      LET e1 == series[Prev(Target)]
          e2 == series[Succ(Target)]
      IN /\ io.ret.s = <<e1, e2>>
         /\ IsLinear(io.ret.result, e1, e2, Target)
         /\ IsBetween(io.ret.result, e1, e2)

\* C4, restricted to midnight timestamps: when t1, t2 and the target all sit
\* on the daily grid the result is the linear interpolation of v1 and v2.
InterpolateLinearOnDailyGrid ==
    (Inside /\ Aligned(Target)
        /\ Aligned(series[Prev(Target)].t) /\ Aligned(series[Succ(Target)].t)) =>
      LET e1 == series[Prev(Target)]
          e2 == series[Succ(Target)]
      IN /\ io.ret.s = <<e1, e2>>
         /\ IsLinear(io.ret.result, e1, e2, Target)
         /\ IsBetween(io.ret.result, e1, e2)

\* C9: for a series of at least two entries and a target before the
\* earliest or after the latest timestamp, b is 0, the neighbourhood
\* iloc[b-1 : b+1] is empty and the call raises.
InterpolateOutsideDomainRaises ==
    (/\ Called
     /\ Len(series) >= 2
     /\ \/ EntriesBefore(Target) = {}
        \/ EntriesAfter(Target) = {}
     /\ \A i \in 1 .. Len(series) : series[i].t # Target)
      => /\ io.ret.path = "interp"
         /\ io.ret.b = 0
         /\ io.ret.s = << >>
         /\ io.ret.result.kind = "raise"

TargetAfterLatestRaised ==
    /\ Called
    /\ Len(series) >= 2
    /\ EntriesAfter(Target) = {}
    /\ EntriesBefore(Target) = 1 .. Len(series)
    /\ io.ret.result.kind = "raise"

\* ---------------------------------------------------------------- claims: add_lines
Started == al # None
Fails(entry) == interpolate_one(series, entry.date).result.kind = "raise"

\* C6: with alternate=True the label at position i (0-based) is up-right
\* (offset (-64, 100), aligned right) for even i and down-left (offset
\* (64, -80), aligned left) for odd i; with alternate=False every label is
\* up-right.
AddLinesAlternates ==
    Started =>
      \A j \in 1 .. Len(canvas) :
        /\ canvas[j].text = al.lines[j].text
        /\ IF al.alternate /\ (j - 1) % 2 = 1
             THEN /\ canvas[j].xytext = <<64, -80>>
                  /\ canvas[j].horizontalalignment = "left"
             ELSE /\ canvas[j].xytext = <<-64, 100>>
                  /\ canvas[j].horizontalalignment = "right"

ThreeLabelsAlternated ==
    /\ Started
    /\ al.alternate
    /\ al.pc = "returned"
    /\ Len(canvas) = 3
    /\ canvas[2].horizontalalignment = "left"

IsPrefix(s, t) == Len(s) <= Len(t) /\ \A j \in 1 .. Len(s) : s[j] = t[j]

AddLinesProgress ==
    IF ~Started THEN canvas = << >>
    ELSE /\ Len(canvas) = al.i
         /\ al.i <= Len(al.lines)
         /\ \A j \in 1 .. al.i :
              /\ ~Fails(al.lines[j])
              /\ canvas[j].text = al.lines[j].text
              /\ canvas[j].xy = <<al.lines[j].date,
                                  interpolate_one(series, al.lines[j].date).result>>
         /\ al.pc = "raised" => (al.i < Len(al.lines) /\ Fails(al.lines[al.i + 1]))
         /\ al.pc = "returned" => al.i = Len(al.lines)

\* C10: add_lines annotates the entries in iteration order and stops at the
\* first entry interpolate_one raises for: the entries before it are on the
\* plot, one annotation each anchored at (date, interpolate_one(series,
\* date)), none at or after it is, and nothing drawn is ever taken back; if
\* no entry fails, every entry is annotated.
AddLinesAbortsOnFirstFailure ==
    /\ []AddLinesProgress
    /\ [][IsPrefix(canvas, canvas')]_vars
    /\ [][(Started /\ al.pc \in {"raised", "returned"}) => (al' = al /\ canvas' = canvas)]_vars

RaisedAfterSomeAnnotated ==
    /\ Started
    /\ al.pc = "raised"
    /\ al.i >= 1
    /\ al.i + 1 < Len(al.lines)
    /\ Len(canvas) = al.i

\* ---------------------------------------------------------------- claims: plot_events
Plotted == pe # None
Provided(x) == x # None
AsSet(x) == IF x.kind = "str" THEN {x.value} ELSE x.values

PassesEvents(r, a) == Provided(a.events) => r.type \in AsSet(a.events)
PassesOrg(r, a) == Provided(a.org) => r.org \in AsSet(a.org)
PassesSince(r, a) ==
    Provided(a.since) =>
      (r.date[1] > a.since.value[1]
         \/ (r.date[1] = a.since.value[1] /\ r.date[2] >= a.since.value[2]))
PassesYear(r, a) == Provided(a.year) => r.date[1] = a.year.value
PassesAll(r, a) ==
    PassesEvents(r, a) /\ PassesOrg(r, a) /\ PassesSince(r, a) /\ PassesYear(r, a)

\* C1: the rows that reach grouping are exactly the rows that satisfy all
\* the provided filters at once (type in events, org in org, date >= since,
\* year(date) = year); a string for events or org is the one-element set.
FiltersConjunctive ==
    Plotted => pe.out.rows = SelectSeq(df, LAMBDA r : PassesAll(r, pe.args))

\* C1, restricted to filters that are not empty lists: the rows grouped are
\* the rows that satisfy all the provided filters.
FiltersConjunctiveWhenNonEmpty ==
    (Plotted /\ pe.args.events # ListArg({}) /\ pe.args.org # ListArg({})) =>
      pe.out.rows = SelectSeq(df, LAMBDA r : PassesAll(r, pe.args))

\* C8: a filter that is not provided is skipped: with no filter provided
\* every row of the dataframe is grouped, and otherwise the rows grouped are
\* those kept by the provided filters alone.
AbsentFiltersSkipped ==
    Plotted =>
      LET a == pe.args
          given == {f \in {"events", "org", "since", "year"} : Provided(a[f])}
          kept(r) == /\ "events" \in given => r.type \in AsSet(a.events)
                     /\ "org" \in given => r.org \in AsSet(a.org)
                     /\ "since" \in given => ~DateGE(a.since.value, r.date) \/ r.date = a.since.value
                     /\ "year" \in given => r.date[1] = a.year.value
      IN /\ given = {} => pe.out.rows = df
         /\ \A i \in 1 .. Len(df) :
              kept(df[i]) <=> \E j \in 1 .. Len(pe.out.rows) : pe.out.rows[j] = df[i]

\* C2: the bar chart data are the top n groups by aggregate value, in
\* descending order: min(n, number of groups) entries, each a group with its
\* aggregate, each at least as large as every group left out.
TopNGroups ==
    (Plotted /\ ~pe.args.timeseries /\ pe.out.kind = "ok") =>
      LET data == pe.out.data
          agg == pe.out.agg
          groups == {df[i].repo_name : i \in 1 .. Len(df)}
          returned == {data[j].key : j \in 1 .. Len(data)}
      IN /\ Len(data) = Min(pe.args.n, Cardinality(groups))
         /\ Cardinality(returned) = Len(data)
         /\ \A j \in 1 .. Len(data) : \E g \in 1 .. Len(agg) : agg[g] = data[j]
         /\ \A j \in 1 .. (Len(data) - 1) : data[j].val >= data[j + 1].val
         /\ \A j \in 1 .. Len(data) : \A g \in 1 .. Len(agg) :
              agg[g].key \notin returned => data[j].val >= agg[g].val

TopTwoOfThreeReordered ==
    /\ Plotted
    /\ pe.out.kind = "ok"
    /\ pe.args.n = 2
    /\ Len(pe.out.agg) = 3
    /\ Len(pe.out.data) = 2
    /\ pe.out.agg[1].val < pe.out.agg[3].val
    /\ pe.out.agg[2].val < pe.out.agg[3].val
    /\ pe.out.data[1] = pe.out.agg[3]

\* C7: with smooth=k the value at position i of every column is the mean of
\* the k unsmoothed values at positions i-k+1 .. i (undefined when one of
\* them is), and undefined at the first k-1 positions; no later position
\* contributes.
SmoothingIsTrailing ==
    (Plotted /\ pe.args.timeseries /\ Provided(pe.args.smooth)) =>
      LET k == pe.args.smooth.value
          raw == pe.out.unsmoothed
          out == pe.out.data
      IN /\ out.index = raw.index
         /\ out.columns = raw.columns
         /\ \A c \in 1 .. Len(raw.columns) : \A i \in 1 .. Len(raw.index) :
              LET window == (i - k + 1) .. i
              IN IF i < k \/ \E j \in window : raw.values[c][j].kind = "nan"
                   THEN out.values[c][i].kind = "nan"
                   ELSE /\ out.values[c][i].kind = "value"
                        /\ out.values[c][i].num * k
                             = SumNum(raw.values[c], i - k + 1, i) * out.values[c][i].den

SmoothedThreeMonths ==
    /\ Plotted
    /\ pe.args.timeseries
    /\ pe.args.smooth = IntArg(2)
    /\ Len(pe.out.data.index) = 3
    /\ pe.out.data.values[1][1].kind = "nan"
    /\ pe.out.data.values[1][2].kind = "value"
    /\ pe.out.data.values[1][3].kind = "value"
    /\ pe.out.data.values[1][2] # pe.out.data.values[1][3]

====
